---- MODULE Spec2Model ----
(***************************************************************************)
(* A model of vulkan_example.cpp: the vkx helpers (make_handle,            *)
(* find_memory_index, allocate, begin/end/submit, copy, create_buffer,     *)
(* create_shader) and the single linear run of main against a Vulkan       *)
(* device whose queue executes submitted work asynchronously.              *)
(***************************************************************************)
EXTENDS Integers, Sequences, FiniteSets, TLC

(***************************************************************************)
(* Bounds of the model.                                                    *)
(***************************************************************************)
\* Largest memoryTypeCount the device reports in the model (the API allows
\* up to VK_MAX_MEMORY_TYPES = 32); it has to exceed the bitset width.
MaxMemoryTypeCount == 17

(***************************************************************************)
(* Program constants.                                                      *)
(***************************************************************************)
\* std::bitset<16> of find_memory_index's resource_type parameter.
BitsetWidth == 16
\* vk::MemoryPropertyFlagBits, as the program names them.
eDeviceLocal == 1
eHostVisible == 2
eHostCoherent == 4
\* Number of bits of a vk::MemoryPropertyFlags value the model keeps.
FlagBits == 3

(***************************************************************************)
(* Integer helpers: the code works on bit masks.                           *)
(***************************************************************************)
RECURSIVE Pow2(_)
Pow2(n) == IF n = 0 THEN 1 ELSE 2 * Pow2(n - 1)

\* bit i of the unsigned value v
BitOf(v, i) == (v \div Pow2(i)) % 2 = 1

RECURSIVE AndBits(_, _, _)
AndBits(a, b, n) ==
    IF n = 0 THEN 0
    ELSE (IF a % 2 = 1 /\ b % 2 = 1 THEN 1 ELSE 0)
         + 2 * AndBits(a \div 2, b \div 2, n - 1)

\* operator& of vk::Flags
FlagsAnd(a, b) == AndBits(a, b, FlagBits)

\* operator| of vk::Flags on disjoint single bits
FlagsOr(a, b) == a + b - FlagsAnd(a, b)

(***************************************************************************)
(* Outcomes of a call: it returns a value, throws a std::exception with a  *)
(* message, or the process is terminated (a library-detected precondition  *)
(* violation).                                                             *)
(***************************************************************************)
Returned(v) == [kind |-> "return", value |-> v, what |-> ""]
Thrown(msg) == [kind |-> "throw", value |-> 0, what |-> msg]
Aborted == [kind |-> "abort", value |-> 0, what |-> ""]
NoOutcome == [kind |-> "none", value |-> 0, what |-> ""]

NoMemoryIndexMsg == "could not find an appropriate memory index"

(***************************************************************************)
(* std::bitset<16>                                                         *)
(***************************************************************************)
\* bitset<16>(unsigned long long): the implicit conversion of the 32-bit
\* memoryTypeBits at the call of find_memory_index keeps the low 16 bits.
ToBitset(val) == val % Pow2(BitsetWidth)

\* resource_type[i].  operator[] has the precondition i < 16; beyond it the
\* behaviour is undefined.  The library implementations keep the bitset in
\* one machine word of at least 32 bits whose bits from 16 on are zero, and
\* memoryTypeCount is at most 32, so the read either yields 0 or, in a
\* build of the library that checks the subscript, terminates the process
\* (the scan below takes the second outcome when checked holds).
BitsetTest(bits, i) == IF i < BitsetWidth THEN BitOf(bits, i) ELSE FALSE

(***************************************************************************)
(* find_memory_index                                                       *)
(***************************************************************************)
\* The condition tests for any of the requested flags (faulty variant).
MatchesAtAnyFlag(mc, bits, mem_flags, i) ==
    /\ BitsetTest(bits, i)
    /\ FlagsAnd(mc.memoryTypes[i], mem_flags) # 0

\* The condition of the if statement for index i.
MatchesAt(mc, bits, mem_flags, i) ==
    /\ BitsetTest(bits, i)
    /\ FlagsAnd(mc.memoryTypes[i], mem_flags) = mem_flags

RECURSIVE ScanFrom(_, _, _, _, _)
ScanFrom(mc, bits, mem_flags, i, checked) ==
    IF i >= mc.memoryTypeCount THEN Thrown(NoMemoryIndexMsg)
    ELSE IF i >= BitsetWidth /\ checked THEN Aborted
    ELSE IF MatchesAt(mc, bits, mem_flags, i) THEN Returned(i)
    ELSE ScanFrom(mc, bits, mem_flags, i + 1, checked)

\* A scan that keeps going and returns the last match (faulty variant).
RECURSIVE ScanLastFrom(_, _, _, _, _)
ScanLastFrom(mc, bits, mem_flags, i, found) ==
    IF i >= mc.memoryTypeCount
    THEN (IF found < 0 THEN Thrown(NoMemoryIndexMsg) ELSE Returned(found))
    ELSE ScanLastFrom(mc, bits, mem_flags, i + 1,
                      IF MatchesAt(mc, bits, mem_flags, i) THEN i ELSE found)

find_memory_index_last(mc, resource_type, mem_flags, checked) ==
    ScanLastFrom(mc, resource_type, mem_flags, 0, -1)

\* checked: the build's std::bitset checks the subscript of operator[].
find_memory_index(mc, resource_type, mem_flags, checked) ==
    ScanFrom(mc, resource_type, mem_flags, 0, checked)

(***************************************************************************)
(* allocate: the memory type lookup followed by vkAllocateMemory.          *)
(* typeBits is memory_requirements.memoryTypeBits (32 bits), api says      *)
(* whether dev->allocateMemory succeeds.  The outcome's value is the       *)
(* memory type index of the allocation.                                    *)
(***************************************************************************)
AllocateMemoryMsg == "vk::Device::allocateMemory"

\* The outcome of allocate and the number of vkAllocateMemory calls that
\* succeeded on the way to it.
AllocOutcome(o, n) ==
    [kind |-> o.kind, value |-> o.value, what |-> o.what, allocated |-> n]

allocate(mc, typeBits, mem_props, checked, api) ==
    LET memory_index ==
            find_memory_index(mc, ToBitset(typeBits), mem_props, checked)
    IN  IF memory_index.kind # "return" THEN AllocOutcome(memory_index, 0)
        ELSE IF api = "fail" THEN AllocOutcome(Thrown(AllocateMemoryMsg), 0)
        ELSE AllocOutcome(Returned(memory_index.value), 1)

(***************************************************************************)
(* State.                                                                  *)
(***************************************************************************)
VARIABLES
    \* vk::PhysicalDeviceMemoryProperties: memoryTypeCount and memoryTypes
    mem_caps,
    \* a call of find_memory_index or allocate on its own: the arguments
    \* (memoryTypeBits, resource_type, mem_flags), which function was
    \* called, and its outcome
    call,
    \* main's position: <<function, statement>>
    pc,
    \* what() of the exception in flight, NoException when there is none
    exc,
    \* the statements executed so far and the queue's completions, in order
    trace,
    \* lines written to std::cout by the catch block
    out,
    \* how the process ended: "running", "return 0", "return -1", "abort"
    exit_code,
    \* image.bin: "absent" or the contents written
    image_bin,
    \* queueFlags of the physical device's queue families, and the index
    \* main selected
    queue_families, graphics_transfer_family_index,
    \* the handles in scope, in order of construction (main's and
    \* create_buffer's locals)
    locals,
    \* use_count of each handle's shared_ptr control block
    refs,
    \* handles whose deleter has run, in order
    deleted,
    \* Vulkan objects created, and destroyed or freed through the API, in order
    created, destroyed,
    \* the command buffer: lifecycle state, recorded commands, begin flags
    cb,
    \* submissions the queue has not finished executing
    pending,
    \* device-side contents: staging and device buffer, attachment, readback
    gpu

callVars == <<call>>
controlVars == <<pc, exc, trace>>
ioVars == <<out, exit_code, image_bin>>
queueFamilyVars == <<queue_families, graphics_transfer_family_index>>
handleVars == <<locals, refs, deleted, created, destroyed>>
deviceVars == <<cb, pending, gpu>>
mainVars == <<controlVars, ioVars, queueFamilyVars, handleVars, deviceVars>>
vars == <<mem_caps, call, mainVars>>

NoException == "none"

(***************************************************************************)
(* Handles: make_handle wraps a Vulkan object in a shared_ptr whose        *)
(* deleter owns copies of the handles it captures.                         *)
(***************************************************************************)
\* The two temporaries make_handle(buffer, [](auto) {}) of create_buffer.
TemporaryHandles == {"tmp_buffer_197", "tmp_buffer_202"}

\* create_buffer's named locals, in order of declaration.
CreateBufferLocals == {"staging_buffer", "staging_memory", "device_memory"}

MainLocals ==
    {"instance", "debug_report_callback_ext", "physical_device", "device",
     "command_pool", "descriptor_pool", "queue", "command_buffer",
     "vertex_shader", "fragment_shader", "color_attachment",
     "positions_attachment_memory", "image_view_positions",
     "depth_attachment", "depth_attachment_memory", "image_view_depth",
     "descriptor_set_layout", "pipeline_layout", "render_pass", "pipeline",
     "frame_buffer", "positions", "descriptor_set", "position_map",
     "position_map_memory", "mapped_memory"}

HandleNames == MainLocals \cup CreateBufferLocals \cup TemporaryHandles

\* mapped_memory is a std::shared_ptr<void> built directly (line 875).
MadeByMakeHandle == HandleNames \ {"mapped_memory"}

\* The handles a deleter's lambda captures by value.
Captures(h) ==
    CASE h = "instance" -> <<>>
      [] h \in {"debug_report_callback_ext", "physical_device"} -> <<"instance">>
      [] h = "device" -> <<"instance", "physical_device">>
      [] h = "command_buffer" -> <<"device", "command_pool">>
      [] h = "descriptor_set" -> <<"device", "descriptor_pool">>
      [] h = "positions" -> <<"device", "device_memory">>
      [] h = "mapped_memory" -> <<"device", "position_map_memory">>
      [] h \in TemporaryHandles -> <<>>
      [] OTHER -> <<"device">>

\* Handles whose deleter calls nothing: [instance](auto) {}, [device](auto)
\* {} and [](auto) {}.
NoopDeleters == {"physical_device", "queue"} \cup TemporaryHandles

\* The Vulkan object a handle wraps.  The buffer create_buffer returns is
\* its local vk::Buffer buffer, which the two temporaries wrap as well.
VkObject(h) ==
    IF h \in TemporaryHandles \cup {"positions"} THEN "buffer" ELSE h

\* Objects that come out of a vkCreate or vkAllocate call (physical devices
\* and queues are retrieved, mapped_memory is a mapping).
IsCreated(h) == h \notin {"physical_device", "queue", "mapped_memory"}

HandleState == [refs |-> refs, deleted |-> deleted, destroyed |-> destroyed]

CaptureCount(h, x) == Cardinality({k \in DOMAIN Captures(h) : Captures(h)[k] = x})

\* The deleter takes its captures by reference instead of by value (faulty variant).
make_handle_by_reference(h, st) ==
    [st EXCEPT !.refs = [x \in HandleNames |-> IF x = h THEN 1 ELSE st.refs[x]]]

\* make_handle(t, deleter): a new control block with use_count 1; the
\* deleter stored in it holds one more reference to each handle it captured.
make_handle(h, st) ==
    [st EXCEPT !.refs = [x \in HandleNames |->
                            IF x = h THEN 1
                            ELSE st.refs[x] + CaptureCount(h, x)]]

\* [=](const T *ptr) { deleter(*ptr); delete ptr; }
RunDeleter(h, st) ==
    [st EXCEPT !.deleted = Append(@, h),
               !.destroyed = IF h \in NoopDeleters THEN @
                             ELSE Append(@, VkObject(h))]

\* ~shared_ptr: the use_count drops; at zero the deleter runs and is then
\* destroyed itself, which releases the handles it captured.
RECURSIVE Release(_, _)
RECURSIVE ReleaseAll(_, _)
Release(h, st) ==
    LET st1 == [st EXCEPT !.refs[h] = @ - 1]
    IN  IF st1.refs[h] > 0 THEN st1
        ELSE ReleaseAll(Captures(h), RunDeleter(h, st1))

ReleaseAll(hs, st) ==
    IF hs = <<>> THEN st ELSE ReleaseAll(Tail(hs), Release(Head(hs), st))

SetHandleState(st) ==
    /\ refs' = st.refs
    /\ deleted' = st.deleted
    /\ destroyed' = st.destroyed

(***************************************************************************)
(* Inputs of find_memory_index and allocate.                               *)
(***************************************************************************)
MemoryTypeIndices == 0 .. (MaxMemoryTypeCount - 1)

\* The memory type whose flags differ from the rest of the table.
PivotIndices ==
    {0, 1, BitsetWidth - 1, BitsetWidth, MaxMemoryTypeCount - 1}
        \cap MemoryTypeIndices

PivotFlagChoices ==
    {eDeviceLocal, eHostVisible, FlagsOr(eHostVisible, eHostCoherent),
     FlagsOr(eDeviceLocal, FlagsOr(eHostVisible, eHostCoherent))}

OtherFlagChoices == {0, eDeviceLocal, FlagsOr(eHostVisible, eHostCoherent)}

MemoryTable(a, fa, fb) == [i \in MemoryTypeIndices |-> IF i = a THEN fa ELSE fb]

MemCapsChoices ==
    {[memoryTypeCount |-> n, memoryTypes |-> MemoryTable(a, fa, fb)] :
        n \in 0 .. MaxMemoryTypeCount, a \in PivotIndices,
        fa \in PivotFlagChoices, fb \in OtherFlagChoices}

\* memoryTypeBits values: bits below, at and above the bitset width.
TypeBitsChoices ==
    {0, 1, 2, 3, Pow2(BitsetWidth - 1), Pow2(BitsetWidth),
     Pow2(BitsetWidth) + 1, Pow2(MaxMemoryTypeCount) - 1}

\* The property flags the program asks for (lines 183, 198, 828), and none.
MemFlagChoices ==
    {0, eDeviceLocal, eHostVisible, FlagsOr(eHostCoherent, eHostVisible)}

NoCall ==
    [fn |-> "none", memoryTypeBits |-> 0, resource_type |-> 0,
     mem_flags |-> 0, result |-> AllocOutcome(NoOutcome, 0)]

(***************************************************************************)
(* The run of main.  Program lists the statements in source order; each    *)
(* is one action below.                                                    *)
(***************************************************************************)
ProgramText ==
    << <<"main", "createInstance">>,
       <<"main", "createDebugReportCallbackEXT">>,
       <<"main", "enumeratePhysicalDevices">>,
       <<"main", "getMemoryProperties">>,
       <<"main", "getQueueFamilyProperties">>,
       <<"main", "createDevice">>,
       <<"main", "createCommandPool">>,
       <<"main", "createDescriptorPool">>,
       <<"main", "getQueue">>,
       <<"main", "allocateCommandBuffers">>,
       <<"vertex_shader", "create_shader">>,
       <<"fragment_shader", "create_shader">>,
       <<"color_attachment", "createImage">>,
       <<"color_attachment", "allocate">>,
       <<"color_attachment", "bindImageMemory">>,
       <<"color_attachment", "createImageView">>,
       <<"depth_attachment", "createImage">>,
       <<"depth_attachment", "allocate">>,
       <<"depth_attachment", "bindImageMemory">>,
       <<"depth_attachment", "createImageView">>,
       <<"main", "createDescriptorSetLayout">>,
       <<"main", "createPipelineLayout">>,
       <<"main", "createRenderPass">>,
       <<"main", "createGraphicsPipeline">>,
       <<"main", "createFramebuffer">>,
       <<"create_buffer", "createBuffer staging">>,
       <<"create_buffer", "allocate staging">>,
       <<"create_buffer", "bindBufferMemory staging">>,
       <<"create_buffer", "copy to staging">>,
       <<"create_buffer", "createBuffer">>,
       <<"create_buffer", "allocate">>,
       <<"create_buffer", "bindBufferMemory">>,
       <<"create_buffer", "copy">>,
       <<"staging_copy", "begin">>,
       <<"staging_copy", "copyBuffer">>,
       <<"staging_copy", "end">>,
       <<"staging_copy", "submit">>,
       <<"staging_copy", "waitIdle">>,
       <<"create_buffer", "copy returns">>,
       <<"create_buffer", "return">>,
       <<"create_buffer", "exit">>,
       <<"render", "begin">>,
       <<"render", "beginRenderPass">>,
       <<"render", "bindPipeline">>,
       <<"render", "random_device">>,
       <<"render", "pushConstants">>,
       <<"render", "allocateDescriptorSets">>,
       <<"render", "updateDescriptorSets">>,
       <<"render", "bindDescriptorSets">>,
       <<"render", "draw">>,
       <<"render", "endRenderPass">>,
       <<"render", "end">>,
       <<"render", "submit">>,
       <<"render", "waitIdle">>,
       <<"position_map", "createBuffer">>,
       <<"position_map", "allocate">>,
       <<"position_map", "bindBufferMemory">>,
       <<"barrier", "begin">>,
       <<"barrier", "pipelineBarrier">>,
       <<"barrier", "end">>,
       <<"barrier", "submit">>,
       <<"barrier", "waitIdle">>,
       <<"image_copy", "begin">>,
       <<"image_copy", "copyImageToBuffer">>,
       <<"image_copy", "end">>,
       <<"image_copy", "submit">>,
       <<"image_copy", "waitIdle">>,
       <<"main", "mapMemory">>,
       <<"main", "write image.bin">>,
       <<"main", "leave try">> >>

\* The command pool section placed ahead of the logical device (faulty variant).
ProgramPoolBeforeDevice ==
    [k \in DOMAIN ProgramText |->
        IF ProgramText[k] = <<"main", "createDevice">>
        THEN <<"main", "createCommandPool">>
        ELSE IF ProgramText[k] = <<"main", "createCommandPool">>
        THEN <<"main", "createDevice">>
        ELSE ProgramText[k]]

\* The draw recorded ahead of the descriptor set's binding (faulty variant).
ProgramDrawBeforeBind ==
    [k \in DOMAIN ProgramText |->
        IF ProgramText[k] = <<"render", "draw">>
        THEN <<"render", "bindDescriptorSets">>
        ELSE IF ProgramText[k] = <<"render", "bindDescriptorSets">>
        THEN <<"render", "draw">>
        ELSE ProgramText[k]]

\* The order in which main executes its statements.
Program == ProgramText

\* Leaving the try block: the locals are destroyed in reverse order, on the
\* normal path and on an exception alike.
LeaveTry == <<"main", "leave try">>
Exited == <<"main", "exit">>
ProcessAborted == <<"process", "abort">>

IndexIn(seq, x) == CHOOSE k \in DOMAIN seq : seq[k] = x

\* The statement that follows l in the source.
After(l) == Program[IndexIn(Program, l) + 1]

\* Completions of submitted work, as the queue appends them to the trace.
GpuDone(work) == <<"queue", work>>
IsHostStep(e) == e[1] # "queue"
HostSteps(t) == SelectSeq(t, IsHostStep)

ApiResults == {"ok", "fail"}

MainInitVars ==
    /\ pc = Program[1]
    /\ exc = NoException
    /\ trace = <<>>
    /\ out = <<>>
    /\ exit_code = "running"
    /\ image_bin = "absent"
    /\ queue_families = <<>>
    /\ graphics_transfer_family_index = 0
    /\ locals = <<>>
    /\ refs = [h \in HandleNames |-> 0]
    /\ deleted = <<>>
    /\ created = <<>>
    /\ destroyed = <<>>
    /\ cb = [state |-> "unallocated", cmds |-> <<>>, one_time |-> FALSE,
             pool_reset |-> FALSE]
    /\ pending = <<>>
    /\ gpu = [staging |-> "undefined", buffer |-> "undefined",
              color |-> "undefined", layout |-> "undefined",
              position_map |-> "undefined"]

Init ==
    /\ MainInitVars
    /\ mem_caps = [memoryTypeCount |-> 0, memoryTypes |-> MemoryTable(0, 0, 0)]
    /\ call = NoCall

(***************************************************************************)
(* What a statement does to the control state.                             *)
(***************************************************************************)
\* The statement completed: go on with the next one.
Advance(l) ==
    /\ pc' = After(l)
    /\ trace' = Append(trace, l)
    /\ exc' = exc

\* The statement threw: the try block is left, its locals are destroyed,
\* and the handler runs.
Throw(l, msg) ==
    /\ pc' = LeaveTry
    /\ trace' = Append(trace, l)
    /\ exc' = msg

\* The process was terminated inside the statement: nothing is unwound.
Abort(l) ==
    /\ pc' = ProcessAborted
    /\ trace' = Append(trace, l)
    /\ exc' = exc
    /\ exit_code' = "abort"
    /\ UNCHANGED <<out, image_bin>>

\* A new local handle h = make_handle(<the object just created>, deleter).
Construct(h) ==
    /\ SetHandleState(make_handle(h, HandleState))
    /\ locals' = Append(locals, h)
    /\ created' = IF IsCreated(h) THEN Append(created, VkObject(h)) ELSE created

\* h = make_handle(dev->createX(...), deleter), where createX may throw.
CreateStep(l, h) ==
    /\ pc = l
    /\ \E api \in ApiResults :
          IF api = "fail"
          THEN Throw(l, l[2]) /\ UNCHANGED handleVars
          ELSE Advance(l) /\ Construct(h)
    /\ UNCHANGED <<mem_caps, call, ioVars, queueFamilyVars, deviceVars>>

\* A call that creates no handle and may throw (bind, update).
CallStep(l) ==
    /\ pc = l
    /\ \E api \in ApiResults :
          IF api = "fail" THEN Throw(l, l[2]) ELSE Advance(l)
    /\ UNCHANGED <<mem_caps, call, ioVars, queueFamilyVars, handleVars,
                   deviceVars>>

(***************************************************************************)
(* What the device reports to main.                                        *)
(***************************************************************************)
\* VkQueueFlagBits the lambda of find_if names.
eGraphics == 1
eTransfer == 4

\* The memory properties of the physical device: a discrete GPU with one
\* device-local and one host-visible type; a device whose only host-visible
\* type is its last one; a device without host-visible memory.
DeviceMemCaps ==
    {[memoryTypeCount |-> 2,
      memoryTypes |-> MemoryTable(1, FlagsOr(eHostVisible, eHostCoherent),
                                  eDeviceLocal)],
     [memoryTypeCount |-> MaxMemoryTypeCount,
      memoryTypes |-> MemoryTable(MaxMemoryTypeCount - 1,
                                  FlagsOr(eHostVisible, eHostCoherent),
                                  eDeviceLocal)],
     [memoryTypeCount |-> 1,
      memoryTypes |-> MemoryTable(0, eDeviceLocal, eDeviceLocal)]}

\* memoryTypeBits of a resource: every type of the device, or its last one.
MemoryTypeBitsOf(mc) ==
    {Pow2(mc.memoryTypeCount) - 1, Pow2(mc.memoryTypeCount - 1)}

\* queueFlags per family (2 is VK_QUEUE_COMPUTE_BIT).
QueueFamilyChoices ==
    { <<>>, <<2>>, <<eTransfer, eGraphics + eTransfer>>,
      <<eGraphics + 2 + eTransfer>>, <<2, eGraphics + eTransfer>> }

(***************************************************************************)
(* main, lines 301-421: instance, device, command resources.               *)
(***************************************************************************)
CreateInstance == CreateStep(<<"main", "createInstance">>, "instance")

CreateDebugReportCallback ==
    CreateStep(<<"main", "createDebugReportCallbackEXT">>,
               "debug_report_callback_ext")

\* devices.front() of an empty enumeration is undefined: the process
\* crashes, or goes on with whatever handle it read.
EnumeratePhysicalDevices ==
    LET l == <<"main", "enumeratePhysicalDevices">>
    IN  /\ pc = l
        /\ \E devices \in {"some", "empty", "fail"}, ub \in {"crash", "garbage"} :
              CASE devices = "fail" ->
                      Throw(l, l[2]) /\ UNCHANGED <<handleVars, ioVars>>
                [] devices = "empty" /\ ub = "crash" ->
                      Abort(l) /\ UNCHANGED handleVars
                [] OTHER ->
                      Advance(l) /\ Construct("physical_device")
                      /\ UNCHANGED ioVars
        /\ UNCHANGED <<mem_caps, call, queueFamilyVars, deviceVars>>

GetMemoryProperties ==
    LET l == <<"main", "getMemoryProperties">>
    IN  /\ pc = l
        /\ mem_caps' \in DeviceMemCaps
        /\ Advance(l)
        /\ UNCHANGED <<call, ioVars, queueFamilyVars, handleVars, deviceVars>>

\* The lambda of find_if: the Flags value converts to bool, which is true
\* when any bit of the mask is left.
QueueFamilyPredicate(queueFlags) ==
    FlagsAnd(queueFlags, FlagsOr(eGraphics, eTransfer)) # 0

\* std::find_if: the first position from k on that satisfies the
\* predicate, Len + 1 (end) when there is none.
RECURSIVE find_if(_, _)
find_if(families, k) ==
    IF k > Len(families) THEN k
    ELSE IF QueueFamilyPredicate(families[k]) THEN k
    ELSE find_if(families, k + 1)

NoQueueFamilyMsg ==
    "could not find queue that supports both graphics and transfers"

\* Lines 349-361: the index is std::distance(begin, it).
SelectQueueFamily ==
    LET l == <<"main", "getQueueFamilyProperties">>
    IN  /\ pc = l
        /\ \E families \in QueueFamilyChoices :
              LET it == find_if(families, 1)
              IN  /\ queue_families' = families
                  /\ IF it = Len(families) + 1
                     THEN /\ Throw(l, NoQueueFamilyMsg)
                          /\ UNCHANGED graphics_transfer_family_index
                     ELSE /\ Advance(l)
                          /\ graphics_transfer_family_index' = it - 1
        /\ UNCHANGED <<mem_caps, call, ioVars, handleVars, deviceVars>>

CreateDevice == CreateStep(<<"main", "createDevice">>, "device")

\* The pool is created with eResetCommandBuffer (line 386).
CreateCommandPool ==
    LET l == <<"main", "createCommandPool">>
    IN  /\ pc = l
        /\ \E api \in ApiResults :
              IF api = "fail"
              THEN Throw(l, l[2]) /\ UNCHANGED <<handleVars, cb>>
              ELSE /\ Advance(l)
                   /\ Construct("command_pool")
                   /\ cb' = [cb EXCEPT !.pool_reset = TRUE]
        /\ UNCHANGED <<mem_caps, call, ioVars, queueFamilyVars, pending, gpu>>

CreateDescriptorPool ==
    CreateStep(<<"main", "createDescriptorPool">>, "descriptor_pool")

\* getQueue returns the queue; nothing is created and nothing throws.
GetQueue ==
    LET l == <<"main", "getQueue">>
    IN  /\ pc = l
        /\ Advance(l)
        /\ Construct("queue")
        /\ UNCHANGED <<mem_caps, call, ioVars, queueFamilyVars, deviceVars>>

AllocateCommandBuffers ==
    LET l == <<"main", "allocateCommandBuffers">>
    IN  /\ pc = l
        /\ \E api \in ApiResults :
              IF api = "fail"
              THEN Throw(l, l[2]) /\ UNCHANGED <<handleVars, cb>>
              ELSE /\ Advance(l)
                   /\ Construct("command_buffer")
                   /\ cb' = [cb EXCEPT !.state = "initial"]
        /\ UNCHANGED <<mem_caps, call, ioVars, queueFamilyVars, pending, gpu>>

(***************************************************************************)
(* create_shader                                                           *)
(***************************************************************************)
SupportedStages ==
    {"eVertex", "eTessellationControl", "eTessellationEvaluation",
     "eGeometry", "eFragment", "eCompute"}

UnsupportedStageMsg == "unsupported vertex stage"

\* Largest number of 32-bit words the compiler produces.
MaxWords == 2

\* sizeof(uint32_t)
SizeofUint32 == 4

\* What a call of create_shader has done when it ends: how it ended, how
\* often the compiler ran, how many shader modules were created and the
\* codeSize of the create info.
ShaderOutcome(o, compiled, modules, codeSize) ==
    [kind |-> o.kind, what |-> o.what, compiled |-> compiled,
     modules |-> modules, codeSize |-> codeSize]

\* The module is created although the compilation failed (faulty variant).
create_shader_unchecked(stage, status, message, words, api) ==
    IF stage \notin SupportedStages
    THEN ShaderOutcome(Thrown(UnsupportedStageMsg), 0, 0, 0)
    ELSE IF api = "fail"
    THEN ShaderOutcome(Thrown("createShaderModule"), 1, 0,
                       SizeofUint32 * words)
    ELSE IF status # "success"
    THEN ShaderOutcome(Thrown(message), 1, 1, SizeofUint32 * words)
    ELSE ShaderOutcome(Returned(1), 1, 1, SizeofUint32 * words)

\* create_shader(device, stage, source) for a stage, the compiler's status,
\* error message and number of words produced, and the result of
\* createShaderModule.
create_shader(stage, status, message, words, api) ==
    IF stage \notin SupportedStages
    THEN ShaderOutcome(Thrown(UnsupportedStageMsg), 0, 0, 0)
    ELSE IF status # "success"
    THEN ShaderOutcome(Thrown(message), 1, 0, 0)
    ELSE IF api = "fail"
    THEN ShaderOutcome(Thrown("createShaderModule"), 1, 0,
                       SizeofUint32 * words)
    ELSE ShaderOutcome(Returned(1), 1, 1, SizeofUint32 * words)

CreateShaderStep(l, h, stage) ==
    /\ pc = l
    /\ \E status \in {"success", "compilation_error"}, api \in ApiResults :
          LET r == create_shader(stage, status, "shaderc: error", MaxWords,
                                 api)
          IN  IF r.kind = "throw"
              THEN Throw(l, r.what) /\ UNCHANGED handleVars
              ELSE Advance(l) /\ Construct(h)
    /\ UNCHANGED <<mem_caps, call, ioVars, queueFamilyVars, deviceVars>>

CreateVertexShader ==
    CreateShaderStep(<<"vertex_shader", "create_shader">>, "vertex_shader",
                     "eVertex")

CreateFragmentShader ==
    CreateShaderStep(<<"fragment_shader", "create_shader">>,
                     "fragment_shader", "eFragment")

(***************************************************************************)
(* Attachments: image, memory, binding, view.                              *)
(***************************************************************************)
\* h = allocate(device, mem_caps, resource, props) for what the device
\* reports as the resource's memoryTypeBits.
AllocateStep(l, h, props) ==
    /\ pc = l
    /\ \E typeBits \in MemoryTypeBitsOf(mem_caps), checked \in BOOLEAN,
          api \in ApiResults :
          LET r == allocate(mem_caps, typeBits, props, checked, api)
          IN  CASE r.kind = "return" ->
                      Advance(l) /\ Construct(h) /\ UNCHANGED ioVars
                [] r.kind = "throw" ->
                      Throw(l, r.what) /\ UNCHANGED <<handleVars, ioVars>>
                [] OTHER -> Abort(l) /\ UNCHANGED handleVars
    /\ UNCHANGED <<mem_caps, call, queueFamilyVars, deviceVars>>

CreateColorImage ==
    CreateStep(<<"color_attachment", "createImage">>, "color_attachment")

AllocateColorMemory ==
    AllocateStep(<<"color_attachment", "allocate">>,
                 "positions_attachment_memory", eDeviceLocal)

BindColorMemory == CallStep(<<"color_attachment", "bindImageMemory">>)

CreateColorView ==
    CreateStep(<<"color_attachment", "createImageView">>,
               "image_view_positions")

CreateDepthImage ==
    CreateStep(<<"depth_attachment", "createImage">>, "depth_attachment")

AllocateDepthMemory ==
    AllocateStep(<<"depth_attachment", "allocate">>,
                 "depth_attachment_memory", eDeviceLocal)

BindDepthMemory == CallStep(<<"depth_attachment", "bindImageMemory">>)

CreateDepthView ==
    CreateStep(<<"depth_attachment", "createImageView">>, "image_view_depth")

(***************************************************************************)
(* Pipeline and frame buffer.                                              *)
(***************************************************************************)
CreateDescriptorSetLayout ==
    CreateStep(<<"main", "createDescriptorSetLayout">>,
               "descriptor_set_layout")

CreatePipelineLayout ==
    CreateStep(<<"main", "createPipelineLayout">>, "pipeline_layout")

CreateRenderPass == CreateStep(<<"main", "createRenderPass">>, "render_pass")

CreateGraphicsPipeline ==
    CreateStep(<<"main", "createGraphicsPipeline">>, "pipeline")

CreateFramebuffer == CreateStep(<<"main", "createFramebuffer">>, "frame_buffer")

(***************************************************************************)
(* The command buffer and the queue (begin, end, submit, lines 125-143).   *)
(***************************************************************************)
\* cb->begin(info): the buffer is (re)set and recording starts.
BeginStep(l, flags) ==
    /\ pc = l
    /\ \E api \in ApiResults :
          IF api = "fail"
          THEN Throw(l, l[2]) /\ UNCHANGED cb
          ELSE /\ Advance(l)
               /\ cb' = [cb EXCEPT !.state = "recording", !.cmds = <<>>,
                                   !.one_time = (flags = "eOneTimeSubmit")]
    /\ UNCHANGED <<mem_caps, call, ioVars, queueFamilyVars, handleVars,
                   pending, gpu>>

\* begin(cb, single_time)
begin(l, single_time) ==
    BeginStep(l, IF single_time THEN "eOneTimeSubmit" ELSE "none")

\* A vkCmd call: the command is appended to the buffer being recorded.
Record(l) ==
    /\ pc = l
    /\ Advance(l)
    /\ cb' = [cb EXCEPT !.cmds = Append(@, l[2])]
    /\ UNCHANGED <<mem_caps, call, ioVars, queueFamilyVars, handleVars,
                   pending, gpu>>

\* end(cb) that leaves the buffer recording (faulty variant).
end_missing(l) ==
    /\ pc = l
    /\ \E api \in ApiResults :
          IF api = "fail" THEN Throw(l, l[2]) ELSE Advance(l)
    /\ UNCHANGED <<mem_caps, call, ioVars, queueFamilyVars, handleVars,
                   deviceVars>>

\* end(cb)
end(l) ==
    /\ pc = l
    /\ \E api \in ApiResults :
          IF api = "fail"
          THEN Throw(l, l[2]) /\ UNCHANGED cb
          ELSE Advance(l) /\ cb' = [cb EXCEPT !.state = "executable"]
    /\ UNCHANGED <<mem_caps, call, ioVars, queueFamilyVars, handleVars,
                   pending, gpu>>

\* submit without the wait for the queue (faulty variant).
submit_no_wait(l, wait) ==
    /\ pc = l
    /\ \E api \in ApiResults :
          IF api = "fail"
          THEN Throw(l, l[2]) /\ UNCHANGED <<cb, pending>>
          ELSE /\ pc' = After(After(l))
               /\ trace' = Append(trace, l)
               /\ exc' = exc
               /\ pending' = Append(pending, [work |-> l[1], cmds |-> cb.cmds,
                                              one_time |-> cb.one_time])
               /\ cb' = [cb EXCEPT !.state = "pending"]
    /\ UNCHANGED <<mem_caps, call, ioVars, queueFamilyVars, handleVars, gpu>>

\* submit(q, cb, wait), first half: q->submit hands the recorded commands to
\* the queue; with wait the caller goes on to q->waitIdle().
submit(l, wait) ==
    /\ pc = l
    /\ \E api \in ApiResults :
          IF api = "fail"
          THEN Throw(l, l[2]) /\ UNCHANGED <<cb, pending>>
          ELSE /\ pc' = IF wait THEN After(l) ELSE After(After(l))
               /\ trace' = Append(trace, l)
               /\ exc' = exc
               /\ pending' = Append(pending, [work |-> l[1], cmds |-> cb.cmds,
                                              one_time |-> cb.one_time])
               /\ cb' = [cb EXCEPT !.state = "pending"]
    /\ UNCHANGED <<mem_caps, call, ioVars, queueFamilyVars, handleVars, gpu>>

\* submit, second half: q->waitIdle() returns once the queue has finished
\* everything submitted to it, or throws.
waitIdle(l) ==
    /\ pc = l
    /\ \E api \in ApiResults :
          IF api = "fail" THEN Throw(l, l[2])
          ELSE pending = <<>> /\ Advance(l)
    /\ UNCHANGED <<mem_caps, call, ioVars, queueFamilyVars, handleVars,
                   deviceVars>>

\* What executing one recorded command does to the device's memory.
ExecuteCommand(cmd, g) ==
    CASE cmd = "copyBuffer" -> [g EXCEPT !.buffer = g.staging]
      [] cmd = "beginRenderPass" -> [g EXCEPT !.color = "cleared"]
      [] cmd = "draw" -> [g EXCEPT !.color = "rendered"]
      [] cmd = "endRenderPass" -> [g EXCEPT !.layout = "eColorAttachmentOptimal"]
      [] cmd = "pipelineBarrier" -> [g EXCEPT !.layout = "eTransferSrcOptimal"]
      [] cmd = "copyImageToBuffer" -> [g EXCEPT !.position_map = g.color]
      [] OTHER -> g

RECURSIVE ExecuteCommands(_, _)
ExecuteCommands(cmds, g) ==
    IF cmds = <<>> THEN g
    ELSE ExecuteCommands(Tail(cmds), ExecuteCommand(Head(cmds), g))

\* The queue finishes its oldest submission.  The command buffer leaves the
\* pending state with its last submission: to invalid after a one-time
\* submit, to executable otherwise.
QueueExecute ==
    /\ pending # <<>>
    /\ exit_code = "running"
    /\ LET w == Head(pending)
       IN  /\ gpu' = ExecuteCommands(w.cmds, gpu)
           /\ pending' = Tail(pending)
           /\ trace' = Append(trace, GpuDone(w.work))
           /\ cb' = IF Tail(pending) = <<>> /\ cb.state = "pending"
                    THEN [cb EXCEPT !.state = IF w.one_time THEN "invalid"
                                              ELSE "executable"]
                    ELSE cb
    /\ UNCHANGED <<mem_caps, call, pc, exc, ioVars, queueFamilyVars, handleVars>>

(***************************************************************************)
(* create_buffer (lines 166-207) for the positions buffer of line 750.     *)
(***************************************************************************)
CreateStagingBuffer ==
    CreateStep(<<"create_buffer", "createBuffer staging">>, "staging_buffer")

AllocateStagingMemory ==
    AllocateStep(<<"create_buffer", "allocate staging">>, "staging_memory",
                 FlagsOr(eHostCoherent, eHostVisible))

BindStagingMemory == CallStep(<<"create_buffer", "bindBufferMemory staging">>)

\* copy(dev, mem, data, size): map, memcpy, unmap.
CopyToStaging ==
    LET l == <<"create_buffer", "copy to staging">>
    IN  /\ pc = l
        /\ \E api \in ApiResults :
              IF api = "fail"
              THEN Throw(l, "mapMemory") /\ UNCHANGED gpu
              ELSE Advance(l) /\ gpu' = [gpu EXCEPT !.staging = "position_data"]
        /\ UNCHANGED <<mem_caps, call, ioVars, queueFamilyVars, handleVars,
                       cb, pending>>

\* vk::Buffer buffer = dev->createBuffer(...): a bare object, no handle.
CreateDeviceBuffer ==
    LET l == <<"create_buffer", "createBuffer">>
    IN  /\ pc = l
        /\ \E api \in ApiResults :
              IF api = "fail"
              THEN Throw(l, l[2]) /\ UNCHANGED created
              ELSE Advance(l) /\ created' = Append(created, "buffer")
        /\ UNCHANGED <<mem_caps, call, ioVars, queueFamilyVars, locals, refs,
                       deleted, destroyed, deviceVars>>

\* allocate(dev, mem_caps, make_handle(buffer, [](auto) {}), eDeviceLocal):
\* the temporary handle lives until the end of the full expression.
AllocateDeviceMemory ==
    LET l == <<"create_buffer", "allocate">>
        tmp == make_handle("tmp_buffer_197", HandleState)
    IN  /\ pc = l
        /\ \E typeBits \in MemoryTypeBitsOf(mem_caps), checked \in BOOLEAN,
              api \in ApiResults :
              LET r == allocate(mem_caps, typeBits, eDeviceLocal, checked, api)
              IN  CASE r.kind = "return" ->
                          /\ Advance(l)
                          /\ SetHandleState(
                                 Release("tmp_buffer_197",
                                         make_handle("device_memory", tmp)))
                          /\ locals' = Append(locals, "device_memory")
                          /\ created' = Append(created, "device_memory")
                          /\ UNCHANGED ioVars
                    [] r.kind = "throw" ->
                          /\ Throw(l, r.what)
                          /\ SetHandleState(Release("tmp_buffer_197", tmp))
                          /\ UNCHANGED <<locals, created, ioVars>>
                    [] OTHER -> Abort(l) /\ UNCHANGED handleVars
        /\ UNCHANGED <<mem_caps, call, queueFamilyVars, deviceVars>>

BindDeviceMemory == CallStep(<<"create_buffer", "bindBufferMemory">>)

\* The call copy(q, cb, staging_buffer, make_handle(buffer, [](auto) {}),
\* size): the temporary is built for the call ...
CallCopy ==
    LET l == <<"create_buffer", "copy">>
    IN  /\ pc = l
        /\ Advance(l)
        /\ SetHandleState(make_handle("tmp_buffer_202", HandleState))
        /\ locals' = Append(locals, "tmp_buffer_202")
        /\ UNCHANGED <<mem_caps, call, ioVars, queueFamilyVars, created,
                       deviceVars>>

StagingCopyBegin == begin(<<"staging_copy", "begin">>, TRUE)
StagingCopyRecord == Record(<<"staging_copy", "copyBuffer">>)
StagingCopyEnd == end(<<"staging_copy", "end">>)
StagingCopySubmit == submit(<<"staging_copy", "submit">>, TRUE)
StagingCopyWaitIdle == waitIdle(<<"staging_copy", "waitIdle">>)

\* ... and destroyed when the call has returned.
CopyReturns ==
    LET l == <<"create_buffer", "copy returns">>
    IN  /\ pc = l
        /\ Advance(l)
        /\ SetHandleState(Release("tmp_buffer_202", HandleState))
        /\ locals' = SubSeq(locals, 1, Len(locals) - 1)
        /\ UNCHANGED <<mem_caps, call, ioVars, queueFamilyVars, created,
                       deviceVars>>

\* return make_handle(buffer, [device = dev, device_memory](auto b) {...});
CreateBufferReturn ==
    LET l == <<"create_buffer", "return">>
    IN  /\ pc = l
        /\ Advance(l)
        /\ SetHandleState(make_handle("positions", HandleState))
        /\ UNCHANGED <<mem_caps, call, ioVars, queueFamilyVars, locals,
                       created, deviceVars>>

\* ~shared_ptr of the innermost local in scope.
ReleaseTop ==
    /\ SetHandleState(Release(locals[Len(locals)], HandleState))
    /\ locals' = SubSeq(locals, 1, Len(locals) - 1)
    /\ UNCHANGED created

\* create_buffer's locals go out of scope, the last declared first.
CreateBufferReleaseLocal ==
    /\ pc = <<"create_buffer", "exit">>
    /\ locals # <<>>
    /\ locals[Len(locals)] \in CreateBufferLocals
    /\ ReleaseTop
    /\ UNCHANGED <<mem_caps, call, controlVars, ioVars, queueFamilyVars,
                   deviceVars>>

\* Back in main: the returned handle initialises positions (line 750).
CreateBufferExit ==
    LET l == <<"create_buffer", "exit">>
    IN  /\ pc = l
        /\ (locals = <<>> \/ locals[Len(locals)] \notin CreateBufferLocals)
        /\ Advance(l)
        /\ locals' = Append(locals, "positions")
        /\ UNCHANGED <<mem_caps, call, ioVars, queueFamilyVars, refs, deleted,
                       created, destroyed, deviceVars>>

(***************************************************************************)
(* Rendering (lines 756-817).                                              *)
(***************************************************************************)
RenderBegin == BeginStep(<<"render", "begin">>, "eSimultaneousUse")
RenderBeginRenderPass == Record(<<"render", "beginRenderPass">>)
RenderBindPipeline == Record(<<"render", "bindPipeline">>)
\* std::random_device r; its constructor throws when no source of
\* randomness is available.
SeedPushConstants == CallStep(<<"render", "random_device">>)

RenderPushConstants == Record(<<"render", "pushConstants">>)

AllocateDescriptorSets ==
    CreateStep(<<"render", "allocateDescriptorSets">>, "descriptor_set")

\* device->updateDescriptorSets: returns nothing and does not throw.
UpdateDescriptorSets ==
    LET l == <<"render", "updateDescriptorSets">>
    IN  /\ pc = l
        /\ Advance(l)
        /\ UNCHANGED <<mem_caps, call, ioVars, queueFamilyVars, handleVars,
                       deviceVars>>

RenderBindDescriptorSets == Record(<<"render", "bindDescriptorSets">>)
RenderDraw == Record(<<"render", "draw">>)
RenderEndRenderPass == Record(<<"render", "endRenderPass">>)
RenderEnd == end(<<"render", "end">>)
RenderSubmit == submit(<<"render", "submit">>, TRUE)
RenderWaitIdle == waitIdle(<<"render", "waitIdle">>)

(***************************************************************************)
(* Readback (lines 819-887).                                               *)
(***************************************************************************)
CreatePositionMap ==
    CreateStep(<<"position_map", "createBuffer">>, "position_map")

AllocatePositionMapMemory ==
    AllocateStep(<<"position_map", "allocate">>, "position_map_memory",
                 eHostVisible)

BindPositionMapMemory == CallStep(<<"position_map", "bindBufferMemory">>)

BarrierBegin == begin(<<"barrier", "begin">>, FALSE)
BarrierRecord == Record(<<"barrier", "pipelineBarrier">>)
BarrierEnd == end(<<"barrier", "end">>)
BarrierSubmit == submit(<<"barrier", "submit">>, TRUE)
BarrierWaitIdle == waitIdle(<<"barrier", "waitIdle">>)

ImageCopyBegin == begin(<<"image_copy", "begin">>, FALSE)
ImageCopyRecord == Record(<<"image_copy", "copyImageToBuffer">>)
ImageCopyEnd == end(<<"image_copy", "end">>)
ImageCopySubmit == submit(<<"image_copy", "submit">>, TRUE)
ImageCopyWaitIdle == waitIdle(<<"image_copy", "waitIdle">>)

\* std::shared_ptr<void> mapped_memory(device->mapMemory(...), unmap)
MapPositionMap == CreateStep(<<"main", "mapMemory">>, "mapped_memory")

\* The ofstream writes what the mapping shows: the buffer's contents, or
\* stale bytes when the memory type found for eHostVisible is not coherent
\* (nothing invalidates the mapped range).  A stream that failed to open
\* writes nothing; none of this throws.
WriteImage ==
    LET l == <<"main", "write image.bin">>
    IN  /\ pc = l
        /\ Advance(l)
        /\ \E file \in {"open", "failed"}, seen \in {gpu.position_map, "stale"} :
              image_bin' = IF file = "open" THEN seen ELSE "absent"
        /\ UNCHANGED <<mem_caps, call, out, exit_code, queueFamilyVars,
                       handleVars, deviceVars>>

(***************************************************************************)
(* The end of the try block, the handler, and the return (lines 889-896).  *)
(***************************************************************************)
\* The locals of the try block are destroyed in reverse order of
\* construction, at its closing brace or while an exception unwinds.
ReleaseLocal ==
    /\ pc = LeaveTry
    /\ locals # <<>>
    /\ ReleaseTop
    /\ UNCHANGED <<mem_caps, call, controlVars, ioVars, queueFamilyVars,
                   deviceVars>>

\* The handler returns as if nothing had happened (faulty variant).
CatchReturnsZero ==
    /\ pc = LeaveTry
    /\ locals = <<>>
    /\ exc # NoException
    /\ exit_code' = "return 0"
    /\ pc' = Exited
    /\ UNCHANGED <<mem_caps, call, exc, trace, out, image_bin, queueFamilyVars,
                   handleVars, deviceVars>>

\* catch (const std::exception &e) { std::cout << e.what(); return -1; }
Catch ==
    /\ pc = LeaveTry
    /\ locals = <<>>
    /\ exc # NoException
    /\ out' = Append(out, exc)
    /\ exit_code' = "return -1"
    /\ pc' = Exited
    /\ UNCHANGED <<mem_caps, call, exc, trace, image_bin, queueFamilyVars,
                   handleVars, deviceVars>>

\* return 0;
ReturnZero ==
    /\ pc = LeaveTry
    /\ locals = <<>>
    /\ exc = NoException
    /\ exit_code' = "return 0"
    /\ pc' = Exited
    /\ UNCHANGED <<mem_caps, call, exc, trace, out, image_bin, queueFamilyVars,
                   handleVars, deviceVars>>

Next ==
    \/ CreateInstance \/ CreateDebugReportCallback
    \/ EnumeratePhysicalDevices \/ GetMemoryProperties \/ SelectQueueFamily
    \/ CreateDevice \/ CreateCommandPool \/ CreateDescriptorPool
    \/ GetQueue \/ AllocateCommandBuffers
    \/ CreateVertexShader \/ CreateFragmentShader
    \/ CreateColorImage \/ AllocateColorMemory \/ BindColorMemory
    \/ CreateColorView
    \/ CreateDepthImage \/ AllocateDepthMemory \/ BindDepthMemory
    \/ CreateDepthView
    \/ CreateDescriptorSetLayout \/ CreatePipelineLayout \/ CreateRenderPass
    \/ CreateGraphicsPipeline \/ CreateFramebuffer
    \/ CreateStagingBuffer \/ AllocateStagingMemory \/ BindStagingMemory
    \/ CopyToStaging \/ CreateDeviceBuffer \/ AllocateDeviceMemory
    \/ BindDeviceMemory \/ CallCopy
    \/ StagingCopyBegin \/ StagingCopyRecord \/ StagingCopyEnd
    \/ StagingCopySubmit \/ StagingCopyWaitIdle
    \/ CopyReturns \/ CreateBufferReturn
    \/ CreateBufferReleaseLocal \/ CreateBufferExit
    \/ RenderBegin \/ RenderBeginRenderPass \/ RenderBindPipeline
    \/ SeedPushConstants
    \/ RenderPushConstants \/ AllocateDescriptorSets \/ UpdateDescriptorSets
    \/ RenderBindDescriptorSets \/ RenderDraw \/ RenderEndRenderPass
    \/ RenderEnd \/ RenderSubmit \/ RenderWaitIdle
    \/ CreatePositionMap \/ AllocatePositionMapMemory
    \/ BindPositionMapMemory
    \/ BarrierBegin \/ BarrierRecord \/ BarrierEnd \/ BarrierSubmit
    \/ BarrierWaitIdle
    \/ ImageCopyBegin \/ ImageCopyRecord \/ ImageCopyEnd \/ ImageCopySubmit
    \/ ImageCopyWaitIdle
    \/ MapPositionMap \/ WriteImage
    \/ ReleaseLocal \/ Catch \/ ReturnZero
    \/ QueueExecute

Spec == Init /\ [][Next]_vars

(***************************************************************************)
(* find_memory_index and allocate on their own, over every table, mask     *)
(* and flag set of the input sets above.                                   *)
(***************************************************************************)
FindInit ==
    /\ MainInitVars
    /\ mem_caps \in MemCapsChoices
    /\ \E tb \in TypeBitsChoices, mf \in MemFlagChoices :
          call = [NoCall EXCEPT !.memoryTypeBits = tb, !.mem_flags = mf]

\* find_memory_index(mem_caps, memoryTypeBits, mem_flags) as allocate calls
\* it: the 32-bit mask converts to std::bitset<16>.
CallFindMemoryIndex ==
    /\ call.fn = "none"
    /\ \E checked \in BOOLEAN :
          call' = [call EXCEPT
                     !.fn = "find_memory_index",
                     !.resource_type = ToBitset(call.memoryTypeBits),
                     !.result = AllocOutcome(
                         find_memory_index(mem_caps,
                                           ToBitset(call.memoryTypeBits),
                                           call.mem_flags, checked), 0)]
    /\ UNCHANGED <<mem_caps, mainVars>>

CallAllocate ==
    /\ call.fn = "none"
    /\ \E checked \in BOOLEAN, api \in {"ok", "fail"} :
          call' = [call EXCEPT
                     !.fn = "allocate",
                     !.resource_type = ToBitset(call.memoryTypeBits),
                     !.result = allocate(mem_caps, call.memoryTypeBits,
                                         call.mem_flags, checked, api)]
    /\ UNCHANGED <<mem_caps, mainVars>>

FindNext == CallFindMemoryIndex \/ CallAllocate

SpecFind == FindInit /\ [][FindNext]_vars

(***************************************************************************)
(* create_buffer's data path (lines 145-207): host data -> staging memory  *)
(* -> device buffer, byte by byte.                                         *)
(***************************************************************************)
\* Largest size in bytes passed to create_buffer, and largest byte value.
MaxSize == 3
MaxByte == 1

Bytes == 0 .. MaxByte

\* A byte nothing has written yet: no value of Bytes.
Undefined == MaxByte + 1

\* vk::BufferUsageFlagBits, as the set of bits.
BufferUsageFlagBits ==
    {"eTransferSrc", "eTransferDst", "eStorageBuffer", "eVertexBuffer"}

\* dev->createBuffer(info) followed by allocate and bindBufferMemory at
\* offset 0: size bytes of fresh memory behind the buffer.
createBuffer(size, usage) ==
    [size |-> size, usage |-> usage, bytes |-> [k \in 1 .. size |-> Undefined]]

\* std::memcpy(dst, src, n)
memcpy(dst, src, n) ==
    [k \in DOMAIN dst |-> IF k <= n THEN src[k] ELSE dst[k]]

\* copy(dev, mem, data, size): mapMemory(*mem, 0, size), memcpy, unmapMemory.
copy_to_memory(buf, data, size) ==
    [buf EXCEPT !.bytes = memcpy(@, data, size)]

\* vk::BufferCopy
BufferCopy(srcOffset, dstOffset, size) ==
    [srcOffset |-> srcOffset, dstOffset |-> dstOffset, size |-> size]

\* cb->copyBuffer(*from, *to, {region}), once executed by the queue.
copyBuffer(from, to, region) ==
    [to EXCEPT !.bytes =
        [k \in DOMAIN to.bytes |->
            IF /\ k > region.dstOffset
               /\ k <= region.dstOffset + region.size
            THEN from.bytes[k - region.dstOffset + region.srcOffset]
            ELSE to.bytes[k]]]

\* A copy of one byte less than asked for (faulty variant).
copy_short(from, to, size) ==
    copyBuffer(from, to, BufferCopy(0, 0, size - 1))

\* copy(q, cb, from, to, size): begin, copyBuffer with
\* setDstOffset(0).setSize(size).setSrcOffset(0), end, submit and wait.
copy(from, to, size) ==
    copyBuffer(from, to, BufferCopy(0, 0, size))

\* create_buffer(dev, q, cb, mem_caps, flags, data, size) on the path on
\* which nothing throws: the buffer it returns.
create_buffer(flags, data, size) ==
    LET staging_buffer ==
            copy_to_memory(createBuffer(size, {"eTransferSrc"}), data, size)
        buffer == createBuffer(size, flags \cup {"eTransferDst"})
    IN  copy(staging_buffer, buffer, size)

(***************************************************************************)
(* The debug report callback log (lines 49-67).                            *)
(***************************************************************************)
\* Number of bits of VkDebugReportFlagBitsEXT (the five of lines 309-313).
MaxDebugReportBits == 5

VK_DEBUG_REPORT_ERROR_BIT_EXT == 8
eError == 8
VK_TRUE == 1
VK_FALSE == 0

\* log(flags, ...): the stream the message is written to and the value
\* returned; flags_ is flags converted to the enumeration, value unchanged.
log(flags) ==
    LET flags_ == flags
    IN  [stream |-> IF flags = VK_DEBUG_REPORT_ERROR_BIT_EXT
                    THEN "cerr" ELSE "cout",
         result |-> IF flags_ = eError THEN VK_TRUE ELSE VK_FALSE]

(***************************************************************************)
(* create_buffer, create_shader and log on their own, over the inputs of   *)
(* the sets below.                                                         *)
(***************************************************************************)
\* vk::ShaderStageFlagBits: the six stages of the switch and two others.
ShaderStages == SupportedStages \cup {"eAllGraphics", "eAll"}

CompilationStatuses == {"success", "compilation_error", "internal_error"}

CompilerMessages == {"shaderc: error", ""}

NoResult == "none"

\* Calls of create_buffer: size is at least 1 (vkCreateBuffer and
\* vkMapMemory take no size of 0) and data points to at least size bytes.
BufferCalls ==
    {[fn |-> "none", target |-> "create_buffer", flags |-> f, data |-> d,
      size |-> n, result |-> NoResult] :
        f \in {{"eStorageBuffer"}, {"eVertexBuffer", "eTransferSrc"}},
        d \in [1 .. MaxSize -> Bytes], n \in 1 .. MaxSize}

\* Calls of create_shader: a successful compilation has produced at least
\* one word, a failed one none.
ShaderCalls ==
    {c \in [fn : {"none"}, target : {"create_shader"}, stage : ShaderStages,
            status : CompilationStatuses, message : CompilerMessages,
            words : 0 .. MaxWords, result : {NoResult}] :
        (c.status = "success") <=> (c.words > 0)}

LogCalls ==
    {[fn |-> "none", target |-> "log", flags |-> f, result |-> NoResult] :
        f \in 0 .. (Pow2(MaxDebugReportBits) - 1)}

CallsInit ==
    /\ MainInitVars
    /\ mem_caps = [memoryTypeCount |-> 0, memoryTypes |-> MemoryTable(0, 0, 0)]
    /\ call \in BufferCalls \cup ShaderCalls \cup LogCalls

\* create_buffer(dev, q, cb, mem_caps, flags, data, size): it returns the
\* buffer, or one of its Vulkan calls throws.
CallCreateBuffer ==
    /\ call.fn = "none"
    /\ call.target = "create_buffer"
    /\ \E api \in ApiResults :
          call' = [call EXCEPT
                     !.fn = "create_buffer",
                     !.result =
                         IF api = "fail"
                         THEN [kind |-> "throw", buffer |-> NoResult]
                         ELSE [kind |-> "return",
                               buffer |-> create_buffer(call.flags, call.data,
                                                        call.size)]]
    /\ UNCHANGED <<mem_caps, mainVars>>

CallCreateShader ==
    /\ call.fn = "none"
    /\ call.target = "create_shader"
    /\ \E api \in ApiResults :
          call' = [call EXCEPT
                     !.fn = "create_shader",
                     !.result = create_shader(call.stage, call.status,
                                              call.message, call.words, api)]
    /\ UNCHANGED <<mem_caps, mainVars>>

CallLog ==
    /\ call.fn = "none"
    /\ call.target = "log"
    /\ call' = [call EXCEPT !.fn = "log", !.result = log(call.flags)]
    /\ UNCHANGED <<mem_caps, mainVars>>

CallsNext == CallCreateBuffer \/ CallCreateShader \/ CallLog

SpecCalls == CallsInit /\ [][CallsNext]_vars

(***************************************************************************)
(* Properties of find_memory_index and allocate (checked under SpecFind).  *)
(***************************************************************************)
\* Index i is a match of the request as the function's parameters state it:
\* bit i of the 16-bit resource_type is set (there is no such bit from 16
\* on) and the type's propertyFlags contain every flag of mem_flags.
IsMatch(i) ==
    /\ i < mem_caps.memoryTypeCount
    /\ i < BitsetWidth
    /\ BitOf(call.resource_type, i)
    /\ FlagsAnd(mem_caps.memoryTypes[i], call.mem_flags) = call.mem_flags

MatchingIndices == {i \in MemoryTypeIndices : IsMatch(i)}

\* Index i is permitted by the resource's 32-bit memoryTypeBits and has the
\* requested property flags.
IsPermittedMatch(i) ==
    /\ i < mem_caps.memoryTypeCount
    /\ BitOf(call.memoryTypeBits, i)
    /\ FlagsAnd(mem_caps.memoryTypes[i], call.mem_flags) = call.mem_flags

FindReturned == call.fn = "find_memory_index" /\ call.result.kind = "return"

\* C1: whenever find_memory_index returns an index i, then
\* i < memoryTypeCount, bit i of resource_type is set and
\* memoryTypes[i].propertyFlags contains every flag of mem_flags.
C1_ReturnedIndexMatches ==
    FindReturned =>
        /\ call.result.value < mem_caps.memoryTypeCount
        /\ BitOf(call.resource_type, call.result.value)
        /\ FlagsAnd(mem_caps.memoryTypes[call.result.value], call.mem_flags)
               = call.mem_flags

\* C1 witness: an index above 0 was returned for a request of two flags
\* out of a table in which some type has only one of them.
C1_Witness ==
    /\ FindReturned
    /\ call.result.value > 0
    /\ call.mem_flags = FlagsOr(eHostCoherent, eHostVisible)
    /\ mem_caps.memoryTypeCount > BitsetWidth

\* C2: find_memory_index returns the first match: when it returns i, no
\* index j < i has bit j of resource_type set together with propertyFlags
\* containing all of mem_flags; the result is the minimum of the matching
\* indices.
C2_FirstMatch ==
    FindReturned =>
        /\ \A j \in 0 .. (call.result.value - 1) : ~IsMatch(j)
        /\ call.result.value \in MatchingIndices
        /\ \A j \in MatchingIndices : call.result.value <= j

\* C2 witness: the function returned an index above 0 although a later
\* index matches the request as well.
C2_Witness ==
    /\ FindReturned
    /\ call.result.value > 0
    /\ \E k \in MatchingIndices : k > call.result.value

\* C3: find_memory_index throws "could not find an appropriate memory
\* index" exactly when no index matches, never when one exists, and
\* allocate has allocated no device memory when it throws.
C3_ThrowsExactlyWhenNoMatch ==
    /\ call.fn = "find_memory_index" =>
          /\ (call.result.kind = "throw") <=> (MatchingIndices = {})
          /\ call.result.kind = "throw" => call.result.what = NoMemoryIndexMsg
    /\ (call.fn = "allocate" /\ call.result.kind = "throw") =>
          call.result.allocated = 0

\* C4: for every memoryTypeCount and every 32-bit memoryTypeBits, allocate
\* finds a memory type that memoryTypeBits permits and that has the
\* requested flags whenever there is one, also when its index is 16 or
\* higher (the lookup fails only when the device has no such type).
C4_PermittedTypeIsFound ==
    (/\ call.fn = "allocate"
     /\ \E i \in MemoryTypeIndices : IsPermittedMatch(i))
        => \/ call.result.what = AllocateMemoryMsg
           \/ /\ call.result.kind = "return"
              /\ IsPermittedMatch(call.result.value)

(***************************************************************************)
(* Properties of the run of main (checked under Spec).                     *)
(***************************************************************************)
Range(seq) == {seq[k] : k \in DOMAIN seq}
Count(seq, x) == Cardinality({k \in DOMAIN seq : seq[k] = x})
Pos(seq, x) == CHOOSE k \in DOMAIN seq : seq[k] = x
Done(l) == l \in Range(trace)
\* a and b both happened, a first
Precedes(seq, a, b) ==
    /\ a \in Range(seq)
    /\ b \in Range(seq)
    /\ Pos(seq, a) < Pos(seq, b)
NoRepeats(seq) == \A i, j \in DOMAIN seq : seq[i] = seq[j] => i = j
\* the statements of the try block, image.bin included
TryBlock == SubSeq(Program, 1, Len(Program) - 1)

C5_State ==
    /\ NoRepeats(HostSteps(trace))
    /\ (pc = Exited /\ exc # NoException) =>
          (exit_code = "return -1" /\ out = <<exc>>)
    /\ exit_code = "return -1" => (exc # NoException /\ out = <<exc>>)
    /\ exit_code = "return 0" =>
          /\ exc = NoException
          /\ out = <<>>
          /\ HostSteps(trace) = TryBlock

C5_Step ==
    exc # NoException => (HostSteps(trace') = HostSteps(trace) /\ exc' = exc)

\* C5: error handling in main is print-and-exit only: once a step has
\* thrown no later step is executed and none is retried, the message is
\* written to the output and main returns -1; main returns 0 only when
\* every step up to and including the write of image.bin completed without
\* an exception.
C5_PrintAndExit == [](C5_State) /\ [][C5_Step]_vars

\* C5 witness: the memory type lookup threw after the device had been
\* created, and main printed its message and returned -1.
C5_Witness ==
    /\ exit_code = "return -1"
    /\ out = <<NoMemoryIndexMsg>>
    /\ "device" \in Range(created)

CommandResources ==
    {<<"main", "createCommandPool">>, <<"main", "getQueue">>,
     <<"main", "allocateCommandBuffers">>}

PipelineSteps ==
    {<<"main", "createRenderPass">>, <<"main", "createGraphicsPipeline">>}

Submissions == {l \in Range(ProgramText) : l[2] = "submit"}

\* b happened only after a had
After1(a, b) == Done(b) => Precedes(trace, a, b)

\* C6: a run performs the five steps in a fixed order and each at most
\* once: the instance before the physical device and the logical device,
\* the device before command pool, queue and command buffer, those before
\* render pass and graphics pipeline, the pipeline before any submission;
\* no step is entered again after a later one has started.
C6_FixedOrder ==
    /\ NoRepeats(HostSteps(trace))
    /\ After1(<<"main", "createInstance">>, <<"main", "enumeratePhysicalDevices">>)
    /\ After1(<<"main", "enumeratePhysicalDevices">>, <<"main", "createDevice">>)
    /\ Done(<<"main", "enumeratePhysicalDevices">>) => "instance" \in Range(created)
    /\ \A r \in CommandResources :
          /\ After1(<<"main", "createDevice">>, r)
          /\ Done(r) => "device" \in Range(created)
          /\ \A p \in PipelineSteps : After1(r, p)
    /\ Done(<<"main", "createRenderPass">>) =>
          {"command_pool", "command_buffer"} \subseteq Range(created)
    /\ \A s \in Submissions :
          /\ After1(<<"main", "createGraphicsPipeline">>, s)
          /\ Done(s) => "pipeline" \in Range(created)
    /\ \A i, j \in DOMAIN HostSteps(trace) :
          i < j => IndexIn(ProgramText, HostSteps(trace)[i])
                       < IndexIn(ProgramText, HostSteps(trace)[j])

\* C6 witness: the run has submitted its rendering work.
C6_Witness == Done(<<"render", "submit">>) /\ "pipeline" \in Range(created)

\* A family that supports both graphics and transfers, as the error message
\* of line 358 puts it.
SupportsGraphicsAndTransfer(queueFlags) ==
    FlagsAnd(queueFlags, FlagsOr(eGraphics, eTransfer))
        = FlagsOr(eGraphics, eTransfer)

\* C7: the queue family main selects supports both graphics and transfer,
\* and when no family of the device supports both, main fails with "could
\* not find queue that supports both graphics and transfers" instead of
\* creating the device.
C7_SelectedFamilySupportsBoth ==
    /\ Done(<<"main", "createDevice">>) =>
          SupportsGraphicsAndTransfer(
              queue_families[graphics_transfer_family_index + 1])
    /\ (/\ Done(<<"main", "getQueueFamilyProperties">>)
        /\ \A k \in DOMAIN queue_families :
              ~SupportsGraphicsAndTransfer(queue_families[k]))
          => (exc = NoQueueFamilyMsg /\ ~Done(<<"main", "createDevice">>))

ReadbackChain ==
    << <<"render", "submit">>, GpuDone("render"), <<"render", "waitIdle">>,
       <<"barrier", "submit">>, GpuDone("barrier"), <<"barrier", "waitIdle">>,
       <<"image_copy", "submit">>, GpuDone("image_copy"),
       <<"image_copy", "waitIdle">>, <<"main", "mapMemory">>,
       <<"main", "write image.bin">> >>

WritesReadback(w) == "copyImageToBuffer" \in Range(w.cmds)

\* C8: image.bin is written only after the render submission, then the
\* barrier submission, then the image-to-buffer copy have completed, each
\* completion established by the queue going idle before the next step;
\* the host never maps or reads the readback buffer while a submission
\* that writes it is pending.
C8_ReadbackOrdered ==
    /\ Done(<<"main", "write image.bin">>) =>
          \A k \in 1 .. (Len(ReadbackChain) - 1) :
              Precedes(trace, ReadbackChain[k], ReadbackChain[k + 1])
    /\ (Done(<<"main", "mapMemory">>) \/ refs["mapped_memory"] > 0) =>
          \A k \in DOMAIN pending : ~WritesReadback(pending[k])
    /\ image_bin # "absent" => gpu.position_map = "rendered"

\* C8 witness: image.bin has been written from the readback buffer, which
\* holds the rendered image.
C8_Witness ==
    /\ Done(<<"main", "write image.bin">>)
    /\ image_bin = "rendered"

RecordingCommands ==
    {"copyBuffer", "beginRenderPass", "bindPipeline", "pushConstants",
     "bindDescriptorSets", "draw", "endRenderPass", "pipelineBarrier",
     "copyImageToBuffer"}

Uses == {"staging_copy", "render", "barrier", "image_copy"}

\* The host executes the statement at pc in this step.
Executes(op) == pc[2] = op /\ trace' # trace /\ trace'[Len(trace')] = pc

C9_Step ==
    /\ Executes("begin") =>
          /\ pc[1] \in Uses
          /\ cb.state \in {"initial", "executable", "invalid"}
          /\ pending = <<>>
          /\ cb.state # "initial" => cb.pool_reset
    /\ (pc[2] \in RecordingCommands /\ trace' # trace /\ IsHostStep(trace'[Len(trace')]))
          => (cb.state = "recording" /\ pending = <<>>)
    /\ Executes("end") => cb.state = "recording"
    /\ Executes("submit") => (cb.state = "executable" /\ pending = <<>>)

\* C9: in each of its four uses the command buffer goes begin, record,
\* end, submit: it is never begun or recorded into while a submission of
\* it is pending, never submitted while recording, never begun twice
\* without an end in between, and it is begun again only in a pool created
\* with the reset-command-buffer flag.
C9_CommandBufferLifecycle == [][C9_Step]_vars

\* C9 witness: the fourth use of the command buffer has been submitted and
\* has completed.
C9_Witness ==
    /\ Done(<<"image_copy", "waitIdle">>)
    /\ Done(GpuDone("image_copy"))
    /\ cb.state = "executable"

DeviceChildren ==
    {"command_pool", "descriptor_pool", "command_buffer", "vertex_shader",
     "fragment_shader", "color_attachment", "positions_attachment_memory",
     "image_view_positions", "depth_attachment", "depth_attachment_memory",
     "image_view_depth", "descriptor_set_layout", "pipeline_layout",
     "render_pass", "pipeline", "frame_buffer", "staging_buffer",
     "staging_memory", "buffer", "device_memory", "descriptor_set",
     "position_map", "position_map_memory"}

\* C10: on a run that completes without an exception every object created
\* through make_handle is destroyed exactly once, when the last copy of its
\* handle is released, and in dependency order: the device's children
\* before the device, the command buffer before its pool, the descriptor
\* set before its pool, device and debug callback before the instance.
C10_DestroyedOnceInOrder ==
    /\ \A h \in MadeByMakeHandle : Count(deleted, h) <= 1
    /\ \A h \in Range(deleted) : refs[h] = 0
    /\ exit_code = "return 0" =>
          /\ \A h \in HandleNames : refs[h] = 0 /\ Count(deleted, h) = 1
          /\ DeviceChildren \cup {"instance", "device",
                                  "debug_report_callback_ext"}
                 = Range(created)
          /\ \A o \in Range(created) :
                Count(created, o) = 1 /\ Count(destroyed, o) = 1
          /\ \A c \in DeviceChildren : Precedes(destroyed, c, "device")
          /\ Precedes(destroyed, "command_buffer", "command_pool")
          /\ Precedes(destroyed, "descriptor_set", "descriptor_pool")
          /\ Precedes(destroyed, "device", "instance")
          /\ Precedes(destroyed, "debug_report_callback_ext", "instance")

\* C10 witness: main returned 0 and the instance was the last object
\* destroyed.
C10_Witness ==
    /\ exit_code = "return 0"
    /\ destroyed # <<>>
    /\ destroyed[Len(destroyed)] = "instance"

(***************************************************************************)
(* Properties of create_buffer inside the run of main.                     *)
(***************************************************************************)
StagingObjects == {"staging_buffer", "staging_memory"}

\* The queue holds the staging-to-device copy and has not executed it yet.
StagingCopyPending == \E k \in DOMAIN pending : pending[k].work = "staging_copy"

StagingCopyFinished == GpuDone("staging_copy") \in Range(trace)

StagingCopySubmitted == StagingCopyPending \/ StagingCopyFinished

\* C11: in create_buffer the staging buffer and its memory are destroyed
\* and freed only after the staging-to-device copy has finished executing
\* (never while the queue still holds it), and the staging memory is bound
\* to the staging buffer and filled with the caller's data before the copy
\* is submitted.
C11_StagingOutlivesCopy ==
    /\ \A o \in StagingObjects :
          o \in Range(destroyed) =>
              (~StagingCopyPending
               /\ (StagingCopySubmitted => StagingCopyFinished))
    /\ StagingCopySubmitted =>
          /\ Precedes(trace, <<"create_buffer", "bindBufferMemory staging">>,
                      <<"staging_copy", "submit">>)
          /\ Precedes(trace, <<"create_buffer", "copy to staging">>,
                      <<"staging_copy", "submit">>)
          /\ gpu.staging = "position_data"

(***************************************************************************)
(* Properties of the render submission (checked under Spec).               *)
(***************************************************************************)
\* The command sequences that exist: the one in the command buffer and
\* those handed to the queue.
CommandSequences == {cb.cmds} \cup {pending[k].cmds : k \in DOMAIN pending}

DrawRecorded(cmds) == "draw" \in Range(cmds)

\* Within one command sequence: the draw lies inside the render pass
\* instance, after the pipeline, the push constants and the descriptor set.
DrawPrerequisites(cmds) ==
    /\ Count(cmds, "beginRenderPass") = 1
    /\ Count(cmds, "draw") = 1
    /\ Precedes(cmds, "beginRenderPass", "draw")
    /\ "endRenderPass" \in Range(cmds) => Precedes(cmds, "draw", "endRenderPass")
    /\ Precedes(cmds, "bindPipeline", "draw")
    /\ Precedes(cmds, "pushConstants", "draw")
    /\ Precedes(cmds, "bindDescriptorSets", "draw")

RenderSubmitted ==
    \/ \E k \in DOMAIN pending : pending[k].work = "render"
    \/ GpuDone("render") \in Range(trace)

\* C13: the draw call is recorded only inside an active render pass
\* instance (after beginRenderPass, before endRenderPass), after the
\* graphics pipeline is bound, after the push constants are pushed and
\* after the descriptor set has been allocated, written with the positions
\* buffer and bound; and the upload of the positions buffer has completed
\* before the command buffer containing the draw is submitted.
C13_DrawPrerequisites ==
    /\ \A cmds \in CommandSequences :
          DrawRecorded(cmds) => DrawPrerequisites(cmds)
    /\ Done(<<"render", "draw">>) =>
          /\ DrawRecorded(cb.cmds) \/ Done(<<"barrier", "begin">>)
          /\ "descriptor_set" \in Range(created)
          /\ "buffer" \in Range(created)
          /\ Done(<<"create_buffer", "exit">>)
          /\ Precedes(trace, <<"create_buffer", "exit">>,
                      <<"render", "updateDescriptorSets">>)
          /\ Precedes(trace, <<"render", "allocateDescriptorSets">>,
                      <<"render", "updateDescriptorSets">>)
          /\ Precedes(trace, <<"render", "updateDescriptorSets">>,
                      <<"render", "bindDescriptorSets">>)
          /\ Precedes(trace, <<"render", "bindDescriptorSets">>,
                      <<"render", "draw">>)
    /\ RenderSubmitted =>
          /\ Precedes(trace, GpuDone("staging_copy"), <<"render", "submit">>)
          /\ Precedes(trace, <<"staging_copy", "waitIdle">>,
                      <<"render", "submit">>)
          /\ gpu.buffer = "position_data"
          /\ \A k \in DOMAIN pending : pending[k].work # "staging_copy"

\* C13 witness: the queue has executed the render submission with its
\* draw, and the attachment holds the rendered image.
C13_Witness ==
    /\ GpuDone("render") \in Range(trace)
    /\ gpu.color = "rendered"
    /\ Done(<<"render", "draw">>)

(***************************************************************************)
(* Properties of create_buffer, create_shader and log (checked under       *)
(* SpecCalls).                                                             *)
(***************************************************************************)
BufferReturned == call.fn = "create_buffer" /\ call.result.kind = "return"

\* C12: create_buffer round-trips the data: for every size and every byte
\* sequence data[0..size), after create_buffer returns the device-local
\* buffer has size `size`, usage flags equal to the requested flags plus
\* transfer-destination, and holds exactly the bytes data[0..size) at
\* offset 0.
C12_RoundTrip ==
    BufferReturned =>
        /\ call.result.buffer.size = call.size
        /\ call.result.buffer.usage = call.flags \cup {"eTransferDst"}
        /\ call.result.buffer.bytes = SubSeq(call.data, 1, call.size)

\* C12 witness: create_buffer returned a buffer of two or more bytes that
\* differ, taken from host data that goes on past the size asked for.
C12_Witness ==
    /\ BufferReturned
    /\ call.size > 1
    /\ call.size < MaxSize
    /\ call.data[1] # call.data[call.size]
    /\ Len(call.result.buffer.bytes) = call.size

ShaderCalled == call.fn = "create_shader"

\* C14: create_shader fails before creating anything: for a stage other
\* than vertex, tessellation control, tessellation evaluation, geometry,
\* fragment or compute it throws "unsupported vertex stage" without
\* compiling; when the compilation does not succeed it throws the
\* compiler's error message without creating a shader module; on success
\* it creates exactly one shader module whose code size in bytes is 4
\* times the number of 32-bit words the compiler produced.
C14_ShaderFailsBeforeCreating ==
    ShaderCalled =>
        /\ call.stage \notin SupportedStages =>
              /\ call.result.kind = "throw"
              /\ call.result.what = "unsupported vertex stage"
              /\ call.result.compiled = 0
        /\ (call.stage \in SupportedStages /\ call.status # "success") =>
              /\ call.result.kind = "throw"
              /\ call.result.what = call.message
        /\ call.result.kind = "throw" => call.result.modules = 0
        /\ call.result.kind = "return" =>
              /\ call.stage \in SupportedStages
              /\ call.status = "success"
              /\ call.result.compiled = 1
              /\ call.result.modules = 1
              /\ call.result.codeSize = 4 * call.words
        /\ call.result.kind \in {"throw", "return"}

\* C14 witness: a fragment shader of two or more words compiled and its
\* one module was created.
C14_Witness ==
    /\ ShaderCalled
    /\ call.stage = "eFragment"
    /\ call.result.kind = "return"
    /\ call.result.modules = 1
    /\ call.result.codeSize > 4

CarriesErrorBit(flags) == (flags \div 8) % 2 = 1

\* C15: the debug callback log() treats error reports consistently: for
\* every flags value the message goes to the error stream exactly when the
\* callback returns VK_TRUE, and both happen exactly when the flags carry
\* the error bit; every other report goes to standard output and returns
\* VK_FALSE.
C15_ErrorReportsConsistent ==
    call.fn = "log" =>
        /\ (call.result.stream = "cerr") <=> (call.result.result = VK_TRUE)
        /\ (call.result.result = VK_TRUE) <=> CarriesErrorBit(call.flags)
        /\ ~CarriesErrorBit(call.flags) =>
              (call.result.stream = "cout" /\ call.result.result = VK_FALSE)
        /\ call.result.stream \in {"cerr", "cout"}
        /\ call.result.result \in {VK_TRUE, VK_FALSE}

(***************************************************************************)
(* Properties of the failing runs of main (checked under Spec).            *)
(***************************************************************************)
\* C16: no object is leaked on a failing run: on every path on which a
\* step throws, every Vulkan object created before the throw (the
\* device-local buffer created inside create_buffer before its memory is
\* allocated, bound and filled included) is destroyed exactly once before
\* main returns -1.
C16_NoLeakOnFailure ==
    exit_code = "return -1" =>
        \A o \in Range(created) :
            Count(created, o) = 1 /\ Count(destroyed, o) = 1

====
